---- MODULE Spec2Model ----
(***************************************************************************)
(* A model of InMemoryCache[T] (src/in-memory-cache.go): a map from key to *)
(* entry, an eviction queue of the same entries, a reader/writer mutex, a  *)
(* ticker and the autoClean goroutine that trims expired entries from the  *)
(* head of the queue.                                                      *)
(*                                                                         *)
(* Callers are goroutines calling Set, Get and Close.  Every call is cut   *)
(* at the points where another goroutine can interleave: before the mutex  *)
(* is taken and between the statements of a critical section that read the *)
(* clock.  deleteExpiredEntries reads len(c.queue) before it takes the     *)
(* mutex, so that read is a step of its own and sees whatever a Set has    *)
(* written so far.                                                         *)
(***************************************************************************)
EXTENDS Integers, Sequences, FiniteSets

\* ---------------------------------------------------------------- bounds
MaxTime == 2
MaxTTL == 1
MaxCalls == 3
MaxLiveCalls == 2

Keys == {"a", "b"}
Values == {"v1", "v2"}
Callers == {"g1", "g2"}
CallerOrder == [t \in Callers |-> IF t = "g1" THEN 1 ELSE 2]

\* The zero value of T that Get returns with a miss (var v T).
ZeroValue == ""
Cleaner == "autoClean"
NoOne == "none"
NoSet == [Value |-> ZeroValue, at |-> -1, n |-> 0]
NoCall == [op |-> "none", key |-> "", value |-> ZeroValue]
NoRet == [op |-> "none", key |-> "", outcome |-> "none", value |-> ZeroValue,
          at |-> -1]

VARIABLES
    timeToLive,     \* c.timeToLive
    now,            \* the monotonic clock read by time.Now()
    isClosed,       \* c.isClosed
    hashmap,        \* c.hashmap: a function from the stored keys to entries
    queue,          \* c.queue: a sequence of entries
    done,           \* c.done: "open" or "closed"
    tickerC,        \* ticks buffered in c.cleaningTicker.C (capacity 1)
    tickerStopped,  \* whether c.cleaningTicker.Stop() was called
    mutexW,         \* the holder of c.mutex's write lock, or NoOne
    mutexR,         \* the holders of c.mutex's read lock
    pc,             \* each caller's position
    call,           \* each caller's current call and its arguments
    ret,            \* how each caller's last call ended
    cpc,            \* the position of the autoClean goroutine
    budget,         \* the number of calls the callers may still make
    lastSet         \* history: per key, the value and time of the last Set
                    \* and the number of Sets

vars == <<timeToLive, now, isClosed, hashmap, queue, done, tickerC,
          tickerStopped, mutexW, mutexR, pc, call, ret, cpc, budget, lastSet>>

cacheVars == <<isClosed, hashmap, queue, done, tickerStopped>>

\* ------------------------------------------------------------- helpers

\* entry[T]{Key, Value, Expiration: time.Now().Add(c.timeToLive)}
NewEntry(key, v, t, ttl) == [Key |-> key, Value |-> v, Expiration |-> t + ttl]

IsExpiredAtOrBefore(e, t) == e.Expiration <= t

IsExpiredAfter(e, t) == e.Expiration > t

\* e.Expiration.Before(time.Now())
IsExpired(e, t) == e.Expiration < t

mustBeNotClosedNever(closed) == FALSE

\* whether mustBeNotClosed panics
mustBeNotClosed(closed) == closed

\* The index of the first entry of q with the given key, 0 if there is none.
RECURSIVE IndexOfKey(_, _, _)
IndexOfKey(q, key, i) ==
    IF i > Len(q) THEN 0
    ELSE IF q[i].Key = key THEN i
    ELSE IndexOfKey(q, key, i + 1)

\* q without its i-th element: append(q[:i], q[i+1:]...)
RemoveAt(q, i) == SubSeq(q, 1, i - 1) \o SubSeq(q, i + 1, Len(q))

RemoveKeyKeep(q, key, exists) == q

\* Lines 34-42 of Set: if the key is in the map, drop the first entry with
\* that key from the queue.
RemoveKey(q, key, exists) ==
    IF exists /\ IndexOfKey(q, key, 1) # 0
    THEN RemoveAt(q, IndexOfKey(q, key, 1))
    ELSE q

QueuePushFront(q, e) == <<e>> \o q

\* c.queue = append(c.queue, e)
QueuePush(q, e) == Append(q, e)

MapStoreIfAbsent(h, key, e) ==
    [k \in DOMAIN h \cup {key} |-> IF k \in DOMAIN h THEN h[k] ELSE e]

\* c.hashmap[key] = e
MapStore(h, key, e) ==
    [k \in DOMAIN h \cup {key} |-> IF k = key THEN e ELSE h[k]]

\* A new call is made by the first goroutine that is not inside a call, while
\* calls are left.
CanCall(t) ==
    /\ budget > 0
    /\ \A u \in Callers : CallerOrder[u] < CallerOrder[t] => pc[u] # "idle"

MutexFree == mutexW = NoOne /\ mutexR = {}

\* How a call ended: the call, its key, its outcome, the value returned
\* and the clock at that time.
Ended(c, outcome, v, t) ==
    [op |-> c.op, key |-> c.key, outcome |-> outcome, value |-> v, at |-> t]

\* ---------------------------------------------------------------- Init

\* NewInMemoryCache(timeToLive, autoCleanInterval): an open cache with an
\* empty map and queue, a running ticker and the autoClean goroutine
\* started.
Init ==
    /\ timeToLive \in 1..MaxTTL
    /\ now = 0
    /\ isClosed = FALSE
    /\ hashmap = <<>>
    /\ queue = <<>>
    /\ done = "open"
    /\ tickerC = 0
    /\ tickerStopped = FALSE
    /\ mutexW = NoOne
    /\ mutexR = {}
    /\ pc = [t \in Callers |-> "idle"]
    /\ call = [t \in Callers |-> NoCall]
    /\ ret = [t \in Callers |-> NoRet]
    /\ cpc = "select"
    /\ budget = MaxCalls
    /\ lastSet = [k \in Keys |-> NoSet]

\* ----------------------------------------------------------------- time

\* The clock advances.
Advance ==
    /\ now < MaxTime
    /\ now' = now + 1
    /\ UNCHANGED <<timeToLive, isClosed, hashmap, queue, done, tickerC,
                   tickerStopped, mutexW, mutexR, pc, call, ret, cpc, budget,
                   lastSet>>

\* The ticker delivers a tick into its channel of capacity 1; a stopped
\* ticker delivers none.
TickerFire ==
    /\ ~tickerStopped
    /\ tickerC = 0
    /\ tickerC' = 1
    /\ UNCHANGED <<timeToLive, now, isClosed, hashmap, queue, done,
                   tickerStopped, mutexW, mutexR, pc, call, ret, cpc, budget,
                   lastSet>>

\* ------------------------------------------------------------------ Set

CallSet(t) ==
    /\ pc[t] = "idle"
    /\ CanCall(t)
    /\ \E k \in Keys, v \in Values :
          call' = [call EXCEPT ![t] = [op |-> "Set", key |-> k, value |-> v]]
    /\ ret' = [ret EXCEPT ![t] = NoRet]
    /\ pc' = [pc EXCEPT ![t] = "Set_lock"]
    /\ budget' = budget - 1
    /\ UNCHANGED <<timeToLive, now, cacheVars, tickerC, mutexW, mutexR, cpc,
                   lastSet>>

\* c.mutex.Lock()
SetLock(t) ==
    /\ pc[t] = "Set_lock"
    /\ MutexFree
    /\ mutexW' = t
    /\ pc' = [pc EXCEPT ![t] = "Set_remove"]
    /\ UNCHANGED <<timeToLive, now, cacheVars, tickerC, mutexR, call, ret,
                   cpc, budget, lastSet>>

\* A Set whose Unlock is not deferred: the panic leaves the mutex locked.
SetRemoveNoUnlock(t) ==
    /\ pc[t] = "Set_remove"
    /\ IF mustBeNotClosed(isClosed)
       THEN /\ ret' = [ret EXCEPT ![t] = Ended(call[t], "panic", ZeroValue, now)]
            /\ call' = [call EXCEPT ![t] = NoCall]
            /\ pc' = [pc EXCEPT ![t] = "idle"]
            /\ UNCHANGED queue
       ELSE /\ queue' = RemoveKey(queue, call[t].key,
                                  call[t].key \in DOMAIN hashmap)
            /\ pc' = [pc EXCEPT ![t] = "Set_store"]
            /\ UNCHANGED <<ret, call>>
    /\ UNCHANGED <<timeToLive, now, isClosed, hashmap, done, tickerC,
                   tickerStopped, mutexW, mutexR, cpc, budget, lastSet>>

\* A Set that calls c.mustBeNotClosed() only after it has removed the key's
\* old entry from the queue.
SetRemoveThenCheck(t) ==
    /\ pc[t] = "Set_remove"
    /\ queue' = RemoveKey(queue, call[t].key, call[t].key \in DOMAIN hashmap)
    /\ IF mustBeNotClosed(isClosed)
       THEN /\ ret' = [ret EXCEPT ![t] = Ended(call[t], "panic", ZeroValue, now)]
            /\ call' = [call EXCEPT ![t] = NoCall]
            /\ pc' = [pc EXCEPT ![t] = "idle"]
            /\ mutexW' = NoOne
       ELSE /\ pc' = [pc EXCEPT ![t] = "Set_store"]
            /\ UNCHANGED <<ret, call, mutexW>>
    /\ UNCHANGED <<timeToLive, now, isClosed, hashmap, done, tickerC,
                   tickerStopped, mutexR, cpc, budget, lastSet>>

\* c.mustBeNotClosed() and the removal of the key's old entry from the
\* queue; a panic runs the deferred Unlock.
SetRemove(t) ==
    /\ pc[t] = "Set_remove"
    /\ IF mustBeNotClosed(isClosed)
       THEN /\ ret' = [ret EXCEPT ![t] = Ended(call[t], "panic", ZeroValue, now)]
            /\ call' = [call EXCEPT ![t] = NoCall]
            /\ pc' = [pc EXCEPT ![t] = "idle"]
            /\ mutexW' = NoOne
            /\ UNCHANGED queue
       ELSE /\ queue' = RemoveKey(queue, call[t].key,
                                  call[t].key \in DOMAIN hashmap)
            /\ pc' = [pc EXCEPT ![t] = "Set_store"]
            /\ UNCHANGED <<ret, call, mutexW>>
    /\ UNCHANGED <<timeToLive, now, isClosed, hashmap, done, tickerC,
                   tickerStopped, mutexR, cpc, budget, lastSet>>

\* The new entry, stored in the map and appended to the queue, and the
\* deferred Unlock.
SetStore(t) ==
    /\ pc[t] = "Set_store"
    /\ LET e == NewEntry(call[t].key, call[t].value, now, timeToLive)
       IN /\ hashmap' = MapStore(hashmap, call[t].key, e)
          /\ queue' = QueuePush(queue, e)
    /\ lastSet' = [lastSet EXCEPT ![call[t].key] =
                      [Value |-> call[t].value, at |-> now, n |-> @.n + 1]]
    /\ ret' = [ret EXCEPT ![t] = Ended(call[t], "ok", ZeroValue, now)]
    /\ call' = [call EXCEPT ![t] = NoCall]
    /\ pc' = [pc EXCEPT ![t] = "idle"]
    /\ mutexW' = NoOne
    /\ UNCHANGED <<timeToLive, now, isClosed, done, tickerC, tickerStopped,
                   mutexR, cpc, budget>>

\* ------------------------------------------------------------------ Get

CallGet(t) ==
    /\ pc[t] = "idle"
    /\ CanCall(t)
    /\ \E k \in Keys :
          call' = [call EXCEPT ![t] = [op |-> "Get", key |-> k,
                                       value |-> ZeroValue]]
    /\ ret' = [ret EXCEPT ![t] = NoRet]
    /\ pc' = [pc EXCEPT ![t] = "Get_rlock"]
    /\ budget' = budget - 1
    /\ UNCHANGED <<timeToLive, now, cacheVars, tickerC, mutexW, mutexR, cpc,
                   lastSet>>

\* c.mutex.RLock()
GetRLock(t) ==
    /\ pc[t] = "Get_rlock"
    /\ mutexW = NoOne
    /\ mutexR' = mutexR \cup {t}
    /\ pc' = [pc EXCEPT ![t] = "Get_body"]
    /\ UNCHANGED <<timeToLive, now, cacheVars, tickerC, mutexW, call, ret,
                   cpc, budget, lastSet>>

\* A Get that does not test whether the key is in the map: the nil entry
\* makes e.IsExpired() panic.
GetResultNoExists(closed, h, c, t) ==
    IF mustBeNotClosed(closed) THEN Ended(c, "panic", ZeroValue, t)
    ELSE IF c.key \notin DOMAIN h
    THEN Ended(c, "panic: nil pointer dereference", ZeroValue, t)
    ELSE IF IsExpired(h[c.key], t) THEN Ended(c, "miss", ZeroValue, t)
    ELSE Ended(c, "hit", h[c.key].Value, t)

\* What Get returns: lines 55-61.
GetResult(closed, h, c, t) ==
    IF mustBeNotClosed(closed) THEN Ended(c, "panic", ZeroValue, t)
    ELSE IF c.key \notin DOMAIN h \/ IsExpired(h[c.key], t)
    THEN Ended(c, "miss", ZeroValue, t)
    ELSE Ended(c, "hit", h[c.key].Value, t)

\* A Get that deletes the expired entry it finds.
GetBodyEvicting(t) ==
    /\ pc[t] = "Get_body"
    /\ ret' = [ret EXCEPT ![t] = GetResult(isClosed, hashmap, call[t], now)]
    /\ call' = [call EXCEPT ![t] = NoCall]
    /\ pc' = [pc EXCEPT ![t] = "idle"]
    /\ mutexR' = mutexR \ {t}
    /\ IF ret'[t].outcome = "miss" /\ call[t].key \in DOMAIN hashmap
       THEN /\ hashmap' = [k \in DOMAIN hashmap \ {call[t].key} |-> hashmap[k]]
            /\ queue' = RemoveKey(queue, call[t].key, TRUE)
       ELSE UNCHANGED <<hashmap, queue>>
    /\ UNCHANGED <<timeToLive, now, isClosed, done, tickerC, tickerStopped,
                   mutexW, cpc, budget, lastSet>>

\* The body of Get and the deferred RUnlock.
GetBody(t) ==
    /\ pc[t] = "Get_body"
    /\ ret' = [ret EXCEPT ![t] = GetResult(isClosed, hashmap, call[t], now)]
    /\ call' = [call EXCEPT ![t] = NoCall]
    /\ pc' = [pc EXCEPT ![t] = "idle"]
    /\ mutexR' = mutexR \ {t}
    /\ UNCHANGED <<timeToLive, now, cacheVars, tickerC, mutexW, cpc, budget,
                   lastSet>>

\* ---------------------------------------------------------------- Close

CallClose(t) ==
    /\ pc[t] = "idle"
    /\ CanCall(t)
    /\ call' = [call EXCEPT ![t] = [op |-> "Close", key |-> "",
                                    value |-> ZeroValue]]
    /\ ret' = [ret EXCEPT ![t] = NoRet]
    /\ pc' = [pc EXCEPT ![t] = "Close_lock"]
    /\ budget' = budget - 1
    /\ UNCHANGED <<timeToLive, now, cacheVars, tickerC, mutexW, mutexR, cpc,
                   lastSet>>

\* c.mutex.Lock()
CloseLock(t) ==
    /\ pc[t] = "Close_lock"
    /\ MutexFree
    /\ mutexW' = t
    /\ pc' = [pc EXCEPT ![t] = "Close_body"]
    /\ UNCHANGED <<timeToLive, now, cacheVars, tickerC, mutexR, call, ret,
                   cpc, budget, lastSet>>

\* A Close that does not close c.done.
CloseBodyNoSignal(t) ==
    /\ pc[t] = "Close_body"
    /\ IF mustBeNotClosed(isClosed)
       THEN /\ ret' = [ret EXCEPT ![t] = Ended(call[t], "panic", ZeroValue, now)]
            /\ UNCHANGED <<isClosed, tickerStopped>>
       ELSE /\ tickerStopped' = TRUE
            /\ isClosed' = TRUE
            /\ ret' = [ret EXCEPT ![t] = Ended(call[t], "ok", ZeroValue, now)]
    /\ call' = [call EXCEPT ![t] = NoCall]
    /\ pc' = [pc EXCEPT ![t] = "idle"]
    /\ mutexW' = NoOne
    /\ UNCHANGED <<timeToLive, now, hashmap, queue, done, tickerC, mutexR,
                   cpc, budget, lastSet>>

\* c.mustBeNotClosed(); close(c.done); c.cleaningTicker.Stop();
\* c.isClosed = true; and the deferred Unlock.  Closing a closed channel
\* panics.
CloseBody(t) ==
    /\ pc[t] = "Close_body"
    /\ IF mustBeNotClosed(isClosed)
       THEN /\ ret' = [ret EXCEPT ![t] = Ended(call[t], "panic", ZeroValue, now)]
            /\ UNCHANGED <<isClosed, done, tickerStopped>>
       ELSE IF done = "closed"
       THEN /\ ret' = [ret EXCEPT ![t] =
                          Ended(call[t], "panic: close of closed channel",
                                ZeroValue, now)]
            /\ UNCHANGED <<isClosed, done, tickerStopped>>
       ELSE /\ done' = "closed"
            /\ tickerStopped' = TRUE
            /\ isClosed' = TRUE
            /\ ret' = [ret EXCEPT ![t] = Ended(call[t], "ok", ZeroValue, now)]
    /\ call' = [call EXCEPT ![t] = NoCall]
    /\ pc' = [pc EXCEPT ![t] = "idle"]
    /\ mutexW' = NoOne
    /\ UNCHANGED <<timeToLive, now, hashmap, queue, tickerC, mutexR, cpc,
                   budget, lastSet>>

\* ------------------------------------------------------------ autoClean

\* select: case <-c.cleaningTicker.C
CleanerTick ==
    /\ cpc = "select"
    /\ tickerC = 1
    /\ tickerC' = 0
    /\ cpc' = "check_len"
    /\ UNCHANGED <<timeToLive, now, cacheVars, mutexW, mutexR, pc, call, ret,
                   budget, lastSet>>

\* select: case <-c.done
CleanerDone ==
    /\ cpc = "select"
    /\ done = "closed"
    /\ cpc' = "exited"
    /\ UNCHANGED <<timeToLive, now, cacheVars, tickerC, mutexW, mutexR, pc,
                   call, ret, budget, lastSet>>

\* deleteExpiredEntries: if len(c.queue) == 0 { return }, read without the
\* mutex.
CleanerCheckLen ==
    /\ cpc = "check_len"
    /\ cpc' = IF Len(queue) = 0 THEN "select" ELSE "lock"
    /\ UNCHANGED <<timeToLive, now, cacheVars, tickerC, mutexW, mutexR, pc,
                   call, ret, budget, lastSet>>

\* deleteExpiredEntries: c.mutex.Lock()
CleanerLock ==
    /\ cpc = "lock"
    /\ MutexFree
    /\ mutexW' = Cleaner
    /\ cpc' = "loop"
    /\ UNCHANGED <<timeToLive, now, cacheVars, tickerC, mutexR, pc, call, ret,
                   budget, lastSet>>

\* deleteExpiredEntries: one turn of the loop, c.queue = c.queue[1:] while
\* the head is expired, and c.mutex.Unlock() after it.
CleanerLoop ==
    /\ cpc = "loop"
    /\ IF Len(queue) # 0 /\ IsExpired(queue[1], now)
       THEN /\ queue' = Tail(queue)
            /\ UNCHANGED <<mutexW, cpc>>
       ELSE /\ mutexW' = NoOne
            /\ cpc' = "select"
            /\ UNCHANGED queue
    /\ UNCHANGED <<timeToLive, now, isClosed, hashmap, done, tickerC,
                   tickerStopped, mutexR, pc, call, ret, budget, lastSet>>

\* ----------------------------------------------------------------- Next

Next ==
    \/ Advance
    \/ TickerFire
    \/ \E t \in Callers : CallSet(t)
    \/ \E t \in Callers : SetLock(t)
    \/ \E t \in Callers : SetRemove(t)
    \/ \E t \in Callers : SetStore(t)
    \/ \E t \in Callers : CallGet(t)
    \/ \E t \in Callers : GetRLock(t)
    \/ \E t \in Callers : GetBody(t)
    \/ \E t \in Callers : CallClose(t)
    \/ \E t \in Callers : CloseLock(t)
    \/ \E t \in Callers : CloseBody(t)
    \/ CleanerTick
    \/ CleanerDone
    \/ CleanerCheckLen
    \/ CleanerLock
    \/ CleanerLoop

Spec == Init /\ [][Next]_vars

\* The scheduling the Go runtime gives: the running ticker keeps ticking, a
\* goroutine that can take a step takes it, and a goroutine waiting for the
\* mutex gets it if it is free again and again (sync.RWMutex hands the lock
\* to a starving waiter).  Nothing obliges a caller to make a call or the
\* clock to advance.  Steps that exclude one another share a condition: the
\* holder of the write lock is one goroutine, a caller waits for the mutex
\* in one call at a time, and autoClean is at one place outside its sweep;
\* select may take either of its two cases, so taking c.done is a condition
\* of its own.
Fairness ==
    /\ WF_vars(TickerFire)
    /\ WF_vars(CleanerDone)
    /\ SF_vars(CleanerTick \/ CleanerCheckLen \/ CleanerLock)
    /\ WF_vars(\/ CleanerLoop
               \/ \E t \in Callers :
                     SetRemove(t) \/ SetStore(t) \/ CloseBody(t))
    /\ \A t \in Callers :
          /\ SF_vars(SetLock(t) \/ GetRLock(t) \/ CloseLock(t))
          /\ WF_vars(GetBody(t))

\* The cache as constructed, with fewer calls to come.
LiveInit ==
    /\ timeToLive = 1
    /\ now = 0
    /\ isClosed = FALSE
    /\ hashmap = <<>>
    /\ queue = <<>>
    /\ done = "open"
    /\ tickerC = 0
    /\ tickerStopped = FALSE
    /\ mutexW = NoOne
    /\ mutexR = {}
    /\ pc = [t \in Callers |-> "idle"]
    /\ call = [t \in Callers |-> NoCall]
    /\ ret = [t \in Callers |-> NoRet]
    /\ cpc = "select"
    /\ budget = MaxLiveCalls
    /\ lastSet = [k \in Keys |-> NoSet]

FairSpec == LiveInit /\ [][Next]_vars /\ Fairness

\* --------------------------------------------------------------- claims

\* The keys of the entries of a queue.
QueueKeys(q) == {q[i].Key : i \in 1..Len(q)}

\* The step in which caller t's Get runs its body and returns.
GetReturns(t) == pc[t] = "Get_body" /\ pc'[t] = "idle"

\* The step in which caller t's Set stores its entry and returns.
SetReturns(t) == pc[t] = "Set_store" /\ pc'[t] = "idle"

\* The step in which caller t's call ends, normally or with a panic.
CallEnds(t) == pc[t] # "idle" /\ pc'[t] = "idle"

\* The expiration of the entry stored by the last Set of k.
LastExpiration(k) == lastSet[k].at + timeToLive

\* C1: on an open cache, a Get(k) that runs after the last Set(k, v), at a
\* time not past that entry's expiration (Set time + ttl), returns
\* (v, found), whatever Sets of other keys and sweeps came in between.
C1_HitAfterSet ==
    [][\A t \in Callers :
          (/\ GetReturns(t)
           /\ ~isClosed
           /\ lastSet[call[t].key] # NoSet
           /\ now <= LastExpiration(call[t].key))
          => /\ ret'[t].outcome = "hit"
             /\ ret'[t].value = lastSet[call[t].key].Value]_vars

\* A Get of k returned a hit with the value last Set, at the very time of
\* the entry's expiration, after another key was Set and swept.
C1_Witness ==
    \E t \in Callers, k \in Keys, k2 \in Keys :
        /\ ret[t].op = "Get" /\ ret[t].key = k /\ ret[t].outcome = "hit"
        /\ ret[t].value = lastSet[k].Value
        /\ ret[t].at = LastExpiration(k)
        /\ k2 # k
        /\ lastSet[k2] # NoSet
        /\ k2 \notin QueueKeys(queue)

\* C2: after Set(k, v1) and Set(k, v2), a Get(k) that hits returns the value
\* of the most recent Set of k and no other, and each Set gives the key an
\* entry with that Set's value and a fresh expiration, the time of that Set
\* plus ttl.
C2_UpdateOverwrites ==
    [][\A t \in Callers :
          /\ (GetReturns(t) /\ ret'[t].outcome = "hit")
             => /\ lastSet[call[t].key] # NoSet
                /\ ret'[t].value = lastSet[call[t].key].Value
          /\ SetReturns(t)
             => /\ call[t].key \in DOMAIN hashmap'
                /\ hashmap'[call[t].key].Value = call[t].value
                /\ hashmap'[call[t].key].Expiration = now + timeToLive]_vars

\* A key was Set twice, last with v2 and at a later time than first, and
\* a Get of it then returned v2.
C2_Witness ==
    \E t \in Callers, k \in Keys :
        /\ lastSet[k].n = 2
        /\ lastSet[k].Value = "v2"
        /\ lastSet[k].at > 0
        /\ hashmap[k].Expiration = lastSet[k].at + timeToLive
        /\ ret[t].op = "Get" /\ ret[t].key = k /\ ret[t].outcome = "hit"
        /\ ret[t].value = "v2"
        /\ ret[t].at >= lastSet[k].at

\* C3: once the clock is past the expiration of the entry last Set for k,
\* Get(k) on the open cache returns a miss (the zero value), swept or not.
C3_MissAfterExpiry ==
    [][\A t \in Callers :
          (/\ GetReturns(t)
           /\ ~isClosed
           /\ lastSet[call[t].key] # NoSet
           /\ now > LastExpiration(call[t].key))
          => /\ ret'[t].outcome = "miss"
             /\ ret'[t].value = ZeroValue]_vars

\* A Get of a key returned a miss after the key's entry had expired and
\* with the entry swept out of the queue.
C3_Witness ==
    \E t \in Callers, k \in Keys :
        /\ lastSet[k] # NoSet
        /\ ret[t].op = "Get" /\ ret[t].key = k /\ ret[t].outcome = "miss"
        /\ ret[t].at > LastExpiration(k)
        /\ k \notin QueueKeys(queue)
        /\ k \in DOMAIN hashmap

\* C4: once the cache is closed, every call of Set, Get or Close that ends
\* ends with the panic "cache is closed"; none returns normally.
C4_ClosedPanics ==
    [][\A t \in Callers :
          (CallEnds(t) /\ isClosed) => ret'[t].outcome = "panic"]_vars

\* On a closed cache, two different kinds of call have panicked.
C4_Witness ==
    /\ isClosed
    /\ \E t \in Callers, u \in Callers :
          /\ ret[t].op = "Set" /\ ret[t].outcome = "panic"
          /\ ret[u].op \in {"Get", "Close"} /\ ret[u].outcome = "panic"

\* C5: whenever no Set or sweep holds the write lock, the keys of the map
\* are the keys of the queue's entries, one queue entry per key.
C5_Bijection ==
    mutexW = NoOne =>
        /\ QueueKeys(queue) = DOMAIN hashmap
        /\ Len(queue) = Cardinality(DOMAIN hashmap)

\* C6: on a cache that stays open, with the cleaner ticking, every stored
\* entry whose expiration has passed and whose key is not Set again is
\* eventually gone from both the queue and the map.
C6_SweepRemoves ==
    \A k \in Keys, n \in 1..MaxCalls :
        (/\ k \in DOMAIN hashmap
         /\ IsExpired(hashmap[k], now)
         /\ lastSet[k].n = n)
        ~> (\/ (k \notin DOMAIN hashmap /\ k \notin QueueKeys(queue))
            \/ lastSet[k].n # n
            \/ isClosed)

\* C7: the queue is in non-decreasing order of expiration from head to
\* tail, in every reachable state.
C7_QueueSorted ==
    \A i \in 1..(Len(queue) - 1) :
        queue[i].Expiration <= queue[i + 1].Expiration

\* The queue holds two entries of different expirations, the later one the
\* entry of a key that was Set twice.
C7_Witness ==
    /\ Len(queue) = 2
    /\ queue[1].Expiration < queue[2].Expiration
    /\ lastSet[queue[2].Key].n = 2
    /\ lastSet[queue[1].Key].n = 1

\* C8 as stated: Get of a stored key on the open cache hits only when the
\* expiration is strictly after the current time, and misses when it is at
\* or before it.
C8_MissAtOrBefore ==
    [][\A t \in Callers :
          (GetReturns(t) /\ ~isClosed /\ call[t].key \in DOMAIN hashmap)
          => (ret'[t].outcome = "hit"
                <=> hashmap[call[t].key].Expiration > now)]_vars

\* C8 as amended: Get of a stored key on the open cache misses when the
\* expiration is strictly before the current time and hits, with the stored
\* value, when it is at or after it, the time of expiration included.
C8_MissStrictlyBefore ==
    [][\A t \in Callers :
          (GetReturns(t) /\ ~isClosed /\ call[t].key \in DOMAIN hashmap)
          => /\ hashmap[call[t].key].Expiration < now
                => ret'[t].outcome = "miss"
             /\ hashmap[call[t].key].Expiration >= now
                => /\ ret'[t].outcome = "hit"
                   /\ ret'[t].value = hashmap[call[t].key].Value]_vars

\* A Get that ran at the very time of the stored entry's expiration
\* returned a hit.
C8_Witness ==
    \E t \in Callers :
        /\ ret[t].op = "Get" /\ ret[t].outcome = "hit"
        /\ ret[t].key \in DOMAIN hashmap
        /\ hashmap[ret[t].key].Expiration = ret[t].at
        /\ hashmap[ret[t].key].Value = ret[t].value

\* C9: a Get leaves the map and the queue as they are, whether it hits,
\* misses an absent key or misses an expired one.
C9_GetPure ==
    [][\A t \in Callers : GetReturns(t) => UNCHANGED <<hashmap, queue>>]_vars

\* Two Gets of the same key each returned a miss after the key's entry had
\* expired, and the entry is still in the map and in the queue.
C9_Witness ==
    \E k \in Keys :
        /\ k \in DOMAIN hashmap
        /\ k \in QueueKeys(queue)
        /\ \A t \in Callers :
              /\ ret[t].op = "Get" /\ ret[t].key = k
              /\ ret[t].outcome = "miss"
              /\ ret[t].at > hashmap[k].Expiration

\* C10: once the cache is closed it stays closed, and from then on no step
\* changes the map or the queue.
C10_ClosedFrozen ==
    [][isClosed => (isClosed' /\ UNCHANGED <<hashmap, queue>>)]_vars

\* C11: once Close has returned, the autoClean goroutine eventually leaves
\* its loop, wherever it was when Close ran, and the stopped ticker puts no
\* new tick into its channel.
C11_CleanerTerminates ==
    /\ isClosed ~> (cpc = "exited")
    /\ [][isClosed => (tickerStopped /\ tickerStopped' /\ tickerC' <= tickerC)]_vars

\* The goroutine has exited on a closed cache whose ticker is stopped,
\* after a sweep that emptied the queue.
C11_Witness ==
    /\ isClosed
    /\ cpc = "exited"
    /\ tickerStopped
    /\ tickerC = 0
    /\ hashmap # <<>>
    /\ queue = <<>>

\* The step in which caller t's Close runs its body and ends.
CloseEnds(t) == pc[t] = "Close_body" /\ pc'[t] = "idle"

\* C12: of several Close calls, sequential or concurrent, exactly one does
\* the teardown and every other one panics with "cache is closed": c.done is
\* closed once, by the Close that finds the cache open, never again, and
\* the closed flag is set in that same step.
C12_CloseOnce ==
    [][/\ isClosed <=> done = "closed"
       /\ done = "closed" => done' = "closed"
       /\ \A t \in Callers :
             CloseEnds(t) =>
                IF isClosed
                THEN /\ ret'[t].outcome = "panic"
                     /\ UNCHANGED <<done, isClosed, tickerStopped>>
                ELSE /\ ret'[t].outcome = "ok"
                     /\ done = "open" /\ done' = "closed"
                     /\ isClosed' /\ tickerStopped']_vars

\* Two Close calls were in progress together: one returned, the other
\* panicked.
C12_Witness ==
    \E t \in Callers, u \in Callers :
        /\ ret[t].op = "Close" /\ ret[t].outcome = "ok"
        /\ ret[u].op = "Close" /\ ret[u].outcome = "panic"
        /\ done = "closed"

\* No caller is inside a call.
Quiescent == \A t \in Callers : pc[t] = "idle"

\* No stored entry is expired.
NoneExpired == \A k \in DOMAIN hashmap : ~IsExpired(hashmap[k], now)

\* C13: after any interleaving of concurrent Set and Get calls in which no
\* entry expires, once all calls have returned the map and the queue have
\* the same keys, one queue entry per key, and that entry is the one the
\* map holds for the key.
C13_QuiescentBijection ==
    (Quiescent /\ NoneExpired) =>
        /\ QueueKeys(queue) = DOMAIN hashmap
        /\ Len(queue) = Cardinality(DOMAIN hashmap)
        /\ \A i \in 1..Len(queue) : queue[i] = hashmap[queue[i].Key]

\* Both callers have returned from Sets that ran together, one key was Set
\* twice, nothing is expired and the queue holds both keys.
C13_Witness ==
    /\ Quiescent
    /\ NoneExpired
    /\ \A t \in Callers : ret[t].op = "Set" /\ ret[t].outcome = "ok"
    /\ \E k \in Keys : lastSet[k].n = 2
    /\ Len(queue) = 2

\* C14: on an open cache, Get of a key that was never Set returns a miss,
\* the zero value with an error, and does not panic.
C14_MissNeverSet ==
    [][\A t \in Callers :
          (GetReturns(t) /\ ~isClosed /\ lastSet[call[t].key] = NoSet)
          => /\ ret'[t].outcome = "miss"
             /\ ret'[t].value = ZeroValue]_vars

\* A Get of a key never Set returned a miss on an open cache that holds
\* another key.
C14_Witness ==
    \E t \in Callers :
        /\ ~isClosed
        /\ ret[t].op = "Get" /\ ret[t].outcome = "miss"
        /\ lastSet[ret[t].key] = NoSet
        /\ hashmap # <<>>

\* C15 as stated: every step that reads or writes the map, the queue or
\* the closed flag is taken by a goroutine holding the mutex: Get under the
\* read lock with no writer, Set, Close and every step of
\* deleteExpiredEntries, its len(c.queue) test included, under the write
\* lock.
C15_AllUnderLock ==
    [][/\ \A t \in Callers :
             /\ (pc[t] \in {"Set_remove", "Set_store", "Close_body"}
                 /\ pc'[t] # pc[t])
                => (mutexW = t /\ mutexR = {})
             /\ GetReturns(t) => (t \in mutexR /\ mutexW = NoOne)
       /\ (cpc = "loop" /\ <<cpc, queue>>' # <<cpc, queue>>)
          => (mutexW = Cleaner /\ mutexR = {})
       /\ (cpc = "check_len" /\ cpc' # cpc)
          => (mutexW = Cleaner /\ mutexR = {})]_vars

\* C16: a sweep takes from the queue exactly the entries that are expired:
\* while it holds the lock the queue changes only by the loss of an expired
\* head, and it ends with the rest of the queue as it was and no expired
\* entry anywhere in it.
C16_SweepExact ==
    [][cpc = "loop" =>
          \/ cpc' = "loop" /\ queue' = queue
          \/ /\ cpc' = "loop"
             /\ Len(queue) > 0
             /\ queue[1].Expiration < now
             /\ queue' = Tail(queue)
          \/ /\ cpc' = "select"
             /\ queue' = queue
             /\ \A i \in 1..Len(queue) : queue[i].Expiration >= now]_vars

\* A sweep has ended that took the expired entry of one key and left the
\* unexpired entry of another.
C16_Witness ==
    /\ cpc = "select"
    /\ mutexW = NoOne
    /\ Len(queue) = 1
    /\ queue[1].Expiration >= now
    /\ \E k \in DOMAIN hashmap :
          /\ k # queue[1].Key
          /\ hashmap[k].Expiration < now

\* C17: the queue holds at most one entry per key, in every reachable
\* state.
C17_OneEntryPerKey ==
    \A i \in 1..Len(queue), j \in 1..Len(queue) :
        i # j => queue[i].Key # queue[j].Key

\* A key Set twice, last at the latest time, has one entry in the queue
\* and no call is in progress.
C17_Witness ==
    \E k \in Keys :
        /\ lastSet[k].n = 2
        /\ lastSet[k].at = MaxTime
        /\ Cardinality({i \in 1..Len(queue) : queue[i].Key = k}) = 1
        /\ Quiescent

\* C18: a Set, Get or Close that panics because the cache is closed leaves
\* the map, the queue, the closed flag, the done channel and the ticker as
\* they were.
C18_RejectedNoEffect ==
    [][\A t \in Callers :
          (CallEnds(t) /\ ret'[t].outcome = "panic")
          => UNCHANGED <<hashmap, queue, isClosed, done, tickerStopped>>]_vars

\* A Set of a key was rejected on a closed cache that holds another key
\* and not that one.
C18_Witness ==
    \E t \in Callers :
        /\ isClosed
        /\ ret[t].op = "Set" /\ ret[t].outcome = "panic"
        /\ ret[t].key \notin DOMAIN hashmap
        /\ queue # <<>>

\* The mutex is held only by a goroutine inside its critical section.
LockHeldOnlyInside ==
    /\ \A t \in Callers :
          /\ mutexW = t => pc[t] \in {"Set_remove", "Set_store", "Close_body"}
          /\ t \in mutexR => pc[t] = "Get_body"
    /\ mutexW = Cleaner => cpc = "loop"
    /\ mutexW \in Callers \cup {Cleaner, NoOne}
    /\ mutexW # NoOne => mutexR = {}

\* C19: under fair scheduling every call of Set, Get and Close ends, by
\* returning or by panicking, every run of deleteExpiredEntries ends, and
\* the mutex is never left held by a call that has ended.  The callers make
\* finitely many calls, so "every call and every sweep ends" is: again and
\* again no call is in progress and autoClean is outside
\* deleteExpiredEntries.
C19_NoBlocking ==
    /\ []<>(Quiescent /\ cpc \in {"select", "exited"})
    /\ []LockHeldOnlyInside

\* A Close has returned and a Set or Get that ran with it has panicked;
\* no call is in progress and the mutex is free.
C19_Witness ==
    /\ Quiescent
    /\ MutexFree
    /\ \E t \in Callers, u \in Callers :
          /\ ret[t].op = "Close" /\ ret[t].outcome = "ok"
          /\ ret[u].op \in {"Set", "Get"} /\ ret[u].outcome = "panic"

\* No caller is inside the critical section of a Set.
NoSetInProgress == \A t \in Callers : pc[t] \notin {"Set_remove", "Set_store"}

\* C20: outside a Set's critical section, every entry of the queue is the
\* entry the map holds for its key.
C20_QueueEntriesCurrent ==
    NoSetInProgress =>
        \A i \in 1..Len(queue) :
            /\ queue[i].Key \in DOMAIN hashmap
            /\ hashmap[queue[i].Key] = queue[i]

\* The queue holds only the entry of a key that was Set twice, while the
\* map also holds a key whose entry was swept.
C20_Witness ==
    /\ NoSetInProgress
    /\ Cardinality(DOMAIN hashmap) = 2
    /\ \E k \in Keys : lastSet[k].n = 2 /\ queue = <<hashmap[k]>>

====
